---- MODULE Spec2Model ----
(***************************************************************************)
(* The shared state bridge of the container                                *)
(* (container/src/utils/contextBridge.ts): the auth state, the theme state *)
(* and the listener list of the ContextBridge singleton, its mutating      *)
(* calls (login, logout, toggleTheme), its reads (getAuthState,            *)
(* getThemeState) and its subscription methods (subscribe and the          *)
(* unsubscribe closure it returns).                                        *)
(*                                                                         *)
(* notifyListeners is Array.prototype.forEach over this.listeners: it      *)
(* visits the elements of the array object it was started on, up to the    *)
(* length that array had when forEach began, and it stops at the first     *)
(* callback that throws, the exception leaving through the mutating call.  *)
(* A notification pass is therefore a position (call.idx) in a fixed       *)
(* array (call.arr); a callback is user code, so each invocation ends by   *)
(* returning or by throwing.  The callbacks of this repository (the App1   *)
(* and App2 counters) read getAuthState() when invoked; the model records  *)
(* what each invoked callback reads.  JavaScript is single threaded and    *)
(* the spec (4.3, 5) assumes set calls are never interleaved: no mutating  *)
(* call starts while another one is running.                               *)
(*                                                                         *)
(* Spec: the bridge methods are called between mutating calls.             *)
(* SpecInPass: a running callback may also call subscribe or an            *)
(* unsubscribe closure.                                                    *)
(*                                                                         *)
(* The container's page (container/src/App.tsx and                         *)
(* container/src/components/ErrorBoundary.tsx): each remote is a           *)
(* React.lazy component under its own Suspense and its own ErrorBoundary.  *)
(* React.lazy calls its factory import() at the first render and keeps     *)
(* the outcome: a rejected import is thrown again at every later render.   *)
(* The mounted Counter of a remote imports container/utils in an effect    *)
(* and shows a loading view until setUtils has been called.                *)
(*                                                                         *)
(* HostSpec: the two mounts of one page load, with any fallback prop.      *)
(* DeploySpec: the loads of the page, changes of the entry URLs in the     *)
(* environment and rebuilds of the container.                              *)
(* ConfigSpec: the configuration function of container/webpack.config.js   *)
(* applied to any environment and any mode.                                *)
(*                                                                         *)
(* SpecUsers: Spec with every login made with a user object.               *)
(* SnapSpec: the bridge with a caller that keeps what a read returned.     *)
(* ClickSpec: the click handlers of the two simple Counters and the App's  *)
(* search state.                                                           *)
(* LifeSpec: the page of the App with the Counters that import the bridge: *)
(* mounts, runtime errors, retries, the Counters' subscriptions and the    *)
(* Login and Logout buttons.  Every bridge listener there is a Counter's   *)
(* callback, which does not throw, so a mutating call is one step.         *)
(* StoreSpec: the actions of the two zustand stores.                       *)
(***************************************************************************)
EXTENDS Integers, Sequences, FiniteSets, TLC

\* ------------------------------------------------------------------ inputs

\* the value of `user` before any login and after logout
Null == "null"

\* user objects handed to login (login(user: any) also accepts null)
Users == {"u1", "u2"}

\* callback functions handed to subscribe, compared by identity (l !== listener)
Fns == {"A", "B", "C"}

\* subscribe calls in one run
MaxRegs == 3

\* a property that is absent, or set to undefined
Undefined == "undefined"

\* the remotes of the container: app1 exposes CounterAppOne, app2 CounterAppTwo
Remotes == {"app1", "app2"}

\* the appName of the two <ErrorBoundary> elements of the container's App
Boundaries == {"APP-1", "APP-2"}

\* what a failed import() rejects with
LoadErrors == {"ChunkLoadError"}

\* what a mounted remote component throws while it renders
RenderErrors == {"TypeError"}

\* values of the ErrorBoundary's optional fallback prop: absent, a falsy
\* node (the empty string) and an element
FallbackProps == {Undefined, "", "<CustomFallback/>"}

\* factory calls of one lazy object in one page load
MaxFetches == 2

\* the environment variables the container's configuration reads
EnvVars == {"DEV_APP1", "DEV_APP2", "PROD_APP1", "PROD_APP2"}

\* the container's .env as documented in the README
DotEnv ==
  [DEV_APP1 |-> "app1@http://localhost:3001/remoteEntry.js",
   DEV_APP2 |-> "app2@http://localhost:3002/remoteEntry.js",
   PROD_APP1 |-> "app1@https://micro-app1.netlify.app/remoteEntry.js",
   PROD_APP2 |-> "app2@https://micro-app2.netlify.app/remoteEntry.js"]

\* an entry URL a deployment moves a remote to
MovedUrl(v) == IF v \in {"DEV_APP1", "PROD_APP1"}
                 THEN "app1@https://cdn.example/app1/remoteEntry.js"
                 ELSE "app2@https://cdn.example/app2/remoteEntry.js"

\* messages handed to addNotification
Messages == {"m1", "m2"}

\* notifications held at once
MaxNotes == 3

\* todos handed to addTodo
Todos == {"t1", "t2"}

\* todos held at once
MaxTodos == 3

\* the values of App2's filter
Filters == {"all", "completed", "pending"}

\* clicks on one Counter's button in one run
MaxClicks == 5

\* what the user types into the App's search input
Typed == {"", "abc", "clicks"}

\* values of argv.mode: webpack's three modes, and no --mode on the command line
Modes == {"production", "development", "none", Undefined}

\* ------------------------------------------------------------------- state

VARIABLES
  authState,   \* ContextBridge.authState
  themeState,  \* ContextBridge.themeState
  listeners,   \* ContextBridge.listeners, each element with the number of the subscribe call that pushed it
  issued,      \* issued[r]: the callback captured by the unsubscribe closure of subscribe call r
  used,        \* the subscribe calls whose unsubscribe closure has been invoked
  call,        \* the running mutating call and its forEach position, or the one that
               \* has ended, until the listener list is next changed between calls
  log,         \* the callbacks invoked by that call, in order, with what each read
  returned,    \* what the last bridge method called returned, when it was a read
  lazy,        \* lazy[r]: the React.lazy object of remote r (container App.tsx): status, error, url
  fetches,     \* fetches[r]: how many times the factory import() of remote r has been called
  eb,          \* eb[b]: ErrorBoundary.state of the boundary with appName b
  fallback,    \* fallback[b]: ErrorBoundary.props.fallback of boundary b
  child,       \* child[r]: the remote component of r is mounted under its Suspense
  counter,     \* counter[r]: the state of the mounted Counter of r: its two imports, utils, bridge, authState
  last,        \* last[r]: the last thing that happened to the mount of remote r
  env,         \* process.env of the container build (.env loaded by dotenv)
  argv,        \* the argv webpack hands to the exported configuration function
  config,      \* what the configuration function returned for the build being served
  held,        \* a value a caller got from getAuthState or getThemeState and kept
  count,       \* count[r]: the count state of the simple Counter of remote r
  search,      \* the search state of the container's App, handed to CounterAppTwo
  clicks,      \* clicks[r]: how many times the Counter's button of remote r was clicked
  gstore,      \* the state of useGlobalStore (container/src/store/globalStore.ts)
  a2store,     \* the state of useApp2Store (App2's store)
  storeOp      \* the last action called on one of the two stores

bridgeVars == <<authState, themeState, listeners, issued, used, call, log, returned>>

hostVars == <<lazy, fetches, eb, fallback, child, counter, last>>

buildVars == <<env, argv, config>>

callerVars == <<held>>

clickVars == <<count, search, clicks>>

storeVars == <<gstore, a2store, storeOp>>

otherVars == <<callerVars, clickVars, storeVars>>

vars == <<bridgeVars, hostVars, buildVars, otherVars>>

\* ----------------------------------------------------------- pure helpers

LightColors ==
  [primary |-> "#667eea", secondary |-> "#764ba2",
   background |-> "#ffffff", text |-> "#000000"]

DarkColors ==
  [primary |-> "#667eea", secondary |-> "#764ba2",
   background |-> "#0f0f23", text |-> "#ffffff"]

\* a login that stores the flag and forgets the user
LoginFlagOnly(a, user) == [a EXCEPT !.isAuthenticated = TRUE]

\* login's two assignments to this.authState
LoginAuthState(a, user) == [a EXCEPT !.user = user, !.isAuthenticated = TRUE]

\* a logout that clears the user and keeps the flag
LogoutUserOnly(a) == [a EXCEPT !.user = Null]

\* logout's two assignments to this.authState
LogoutAuthState(a) == [a EXCEPT !.user = Null, !.isAuthenticated = FALSE]

\* a toggle that flips the theme and keeps the colors
ToggleThemeOnly(ts) ==
  [ts EXCEPT !.theme = IF @ = "light" THEN "dark" ELSE "light"]

\* toggleTheme's two assignments: the theme first, the colors from the new theme
ToggledThemeState(ts) ==
  LET t == IF ts.theme = "light" THEN "dark" ELSE "light"
  IN  [ts EXCEPT !.theme = t,
                 !.colors = IF t = "light" THEN LightColors ELSE DarkColors]

\* getAuthState returning this.authState itself
AuthAlias(a) == [alias |-> "this.authState"]

\* { ...this.authState }
AuthCopy(a) == [user |-> a.user, isAuthenticated |-> a.isAuthenticated]

\* { ...this.themeState }
ThemeCopy(t) == [theme |-> t.theme, colors |-> t.colors]

\* this.listeners.push(listener), r the number of the subscribe call
PushListener(ls, f, r) == Append(ls, [fn |-> f, reg |-> r])

\* this.listeners.filter((l) => l !== listener)
FilterListeners(ls, f) == SelectSeq(ls, LAMBDA l : l.fn # f)

\* what an invoked callback does first: it reads the bridge
Invocation(l, a, t) ==
  [reg |-> l.reg, fn |-> l.fn, auth |-> AuthCopy(a), theme |-> t.theme]

\* the subscribe calls made so far whose unsubscribe closure has not been
\* invoked, in the order they were made
Live ==
  SelectSeq([r \in 1..Len(issued) |-> r], LAMBDA r : r \notin used)

NoRead == [kind |-> "none"]

NoCall ==
  [op |-> "none", arg |-> Null, status |-> "returned", arr |-> <<>>,
   idx |-> 0, live |-> <<>>, changed |-> FALSE]

Idle == call.status # "running"

\* ---------------------------------------------- ErrorBoundary (container)

\* state = { hasError: false }: error is absent
InitialState == [hasError |-> FALSE, error |-> Undefined]

\* static getDerivedStateFromError(error)
getDerivedStateFromError(error) == [hasError |-> TRUE, error |-> error]

\* a Retry that resets the flag and keeps the error
RetryKeepsError(s) == [s EXCEPT !.hasError = FALSE]

\* the Retry button's onClick: this.setState({ hasError: false, error: undefined })
RetryClick(s) == [s EXCEPT !.hasError = FALSE, !.error = Undefined]

\* JavaScript truthiness of a fallback prop (the left operand of ||)
Truthy(v) == v \notin {Undefined, ""}

\* render(): what the boundary returns and whether that view holds the Retry
\* button.  The button exists only in the default view; a fallback prop is
\* returned as it is and is handed nothing of the boundary.
render(s, props) ==
  IF s.hasError
    THEN IF Truthy(props.fallback)
           THEN [shows |-> "fallback", node |-> props.fallback, retry |-> FALSE]
           ELSE [shows |-> "fallback", node |-> "default", retry |-> TRUE]
    ELSE [shows |-> "children", node |-> "children", retry |-> FALSE]

\* ------------------------------------------------- the container's App

\* one boundary for both remotes
SharedBoundary(r) == "APP-1"

\* <ErrorBoundary appName="APP-1"> wraps CounterAppOne, "APP-2" CounterAppTwo
BoundaryOf(r) == IF r = "app1" THEN "APP-1" ELSE "APP-2"

\* a React.lazy object before its first render
Uninitialized == [status |-> "uninitialized", error |-> Undefined, url |-> Undefined]

\* React.lazy called inside the component: a new lazy object at every render
LazyPerRender(l) == Uninitialized

\* const CounterAppOne = React.lazy(...) at module scope: every render of the
\* App uses the one lazy object created when the module was evaluated
LazyAtRender(l) == l

\* a new bundle swapped in under the running page, the lazy objects kept
LazyKept(l) == l

\* the page is loaded anew: the App module is evaluated again and React.lazy
\* makes a new lazy object
LazyReloaded(l) == Uninitialized

\* the load state of a remote, read off its lazy object
LoadState(l) ==
  CASE l.status = "uninitialized" -> "NotLoaded"
    [] l.status = "pending" -> "Loading"
    [] l.status = "resolved" -> "Loaded"
    [] l.status = "rejected" -> "Failed"

\* the authState of a Counter before its first setAuthState: useState(null)
NullState == [null |-> TRUE]

\* a Counter that has just mounted: useEffect has called import("container/utils")
\* and import("container/contextBridge"); useState(null) holds no utils, no
\* bridge and no authState yet; reg is the number of the subscribe call the
\* Counter has made, 0 before it
CounterMounted ==
  [utilsImport |-> "pending", utils |-> Null,
   bridgeImport |-> "pending", bridge |-> Null, authState |-> NullState, reg |-> 0]

\* no Counter is mounted
NoCounter ==
  [utilsImport |-> "none", utils |-> Null,
   bridgeImport |-> "none", bridge |-> Null, authState |-> NullState, reg |-> 0]

\* what the Counter returns: the guard `if (!utils)` comes first
CounterView(c) ==
  IF c.utils = Null THEN "Loading shared resources..." ELSE "Counter"

\* what the page shows in the place of remote r
Screen(r) ==
  LET v == render(eb[BoundaryOf(r)], [fallback |-> fallback[BoundaryOf(r)]])
  IN  IF v.shows = "fallback" THEN v.node
      ELSE IF child[r] THEN CounterView(counter[r])
      ELSE "Loading APP..."

\* the mount state of remote r (spec 4.4)
MountState(r) ==
  IF eb[BoundaryOf(r)].hasError
    THEN IF lazy[r].status = "rejected" THEN "FailedToLoad" ELSE "CaughtRuntimeError"
    ELSE IF child[r] THEN "Mounted" ELSE "Mounting"

\* ------------------------------------------- container/webpack.config.js

\* a configuration that tests env.mode where the code tests argv.mode
webpackConfigEnvMode(e, a) ==
  LET isProduction == FALSE
  IN  [mode |-> IF isProduction THEN "production" ELSE "development",
       remotes |-> [app1 |-> IF isProduction THEN e.PROD_APP1 ELSE e.DEV_APP1,
                    app2 |-> IF isProduction THEN e.PROD_APP2 ELSE e.DEV_APP2]]

\* module.exports = (env, argv) => ({ mode, ..., remotes }), e being process.env
webpackConfig(e, a) ==
  LET isProduction == a.mode = "production"
  IN  [mode |-> IF isProduction THEN "production" ELSE "development",
       remotes |-> [app1 |-> IF isProduction THEN e.PROD_APP1 ELSE e.DEV_APP1,
                    app2 |-> IF isProduction THEN e.PROD_APP2 ELSE e.DEV_APP2]]

NotBuilt == [mode |-> Undefined, remotes |-> [app1 |-> Undefined, app2 |-> Undefined]]

\* ------------------------------------------------------------------- Init

\* the ContextBridge singleton as constructed
BridgeInit ==
  /\ authState = [user |-> Null, isAuthenticated |-> FALSE]
  /\ themeState = [theme |-> "light", colors |-> LightColors]
  /\ listeners = <<>>
  /\ issued = <<>>
  /\ used = {}
  /\ call = NoCall
  /\ log = <<>>
  /\ returned = NoRead

\* the container's page before the App's first render
PageInit ==
  /\ lazy = [r \in Remotes |-> Uninitialized]
  /\ fetches = [r \in Remotes |-> 0]
  /\ eb = [b \in Boundaries |-> InitialState]
  /\ child = [r \in Remotes |-> FALSE]
  /\ counter = [r \in Remotes |-> NoCounter]
  /\ last = [r \in Remotes |-> "none"]

\* the production build of the documented .env
BuildInit ==
  /\ env = DotEnv
  /\ argv = [mode |-> "production"]
  /\ config = webpackConfig(env, argv)

\* no value kept by a caller; the simple Counters as first rendered
\* (useState(1)) and the App's search (useState("")); the two zustand stores
\* as created
OtherInit ==
  /\ held = [kind |-> "none"]
  /\ count = [r \in Remotes |-> 1]
  /\ search = ""
  /\ clicks = [r \in Remotes |-> 0]
  /\ gstore = [user |-> Null, theme |-> "light", notifications |-> <<>>]
  /\ a2store = [todos |-> <<>>, filter |-> "all"]
  /\ storeOp = "none"

\* the App passes no fallback prop to its boundaries
Init ==
  /\ BridgeInit
  /\ PageInit
  /\ fallback = [b \in Boundaries |-> Undefined]
  /\ BuildInit
  /\ OtherInit

\* ---------------------------------------------------------------- actions

\* this.notifyListeners() at the end of mutating call o: forEach starts on
\* the current array and calls its first element, or returns at once on an
\* empty array.  a and t are the bridge state the first callback reads; ch
\* tells whether the call's assignments changed the stored value.
notifyListeners(o, u, a, t, ch) ==
  /\ call' = [op |-> o, arg |-> u,
              status |-> IF listeners = <<>> THEN "returned" ELSE "running",
              arr |-> listeners,
              idx |-> IF listeners = <<>> THEN 0 ELSE 1,
              live |-> Live, changed |-> ch]
  /\ log' = IF listeners = <<>> THEN <<>>
            ELSE <<Invocation(listeners[1], a, t)>>

login(u) ==
  /\ Idle
  /\ authState' = LoginAuthState(authState, u)
  /\ notifyListeners("login", u, authState', themeState, authState' # authState)
  /\ returned' = NoRead
  /\ UNCHANGED <<hostVars, buildVars, otherVars, themeState, listeners, issued, used>>

logout ==
  /\ Idle
  /\ authState' = LogoutAuthState(authState)
  /\ notifyListeners("logout", Null, authState', themeState, authState' # authState)
  /\ returned' = NoRead
  /\ UNCHANGED <<hostVars, buildVars, otherVars, themeState, listeners, issued, used>>

toggleTheme ==
  /\ Idle
  /\ themeState' = ToggledThemeState(themeState)
  /\ notifyListeners("toggleTheme", Null, authState, themeState', themeState' # themeState)
  /\ returned' = NoRead
  /\ UNCHANGED <<hostVars, buildVars, otherVars, authState, listeners, issued, used>>

\* the running callback returns: forEach calls the next element of its array,
\* or, after the last one, notifyListeners and the mutating call return
ListenerReturn ==
  /\ call.status = "running"
  /\ IF call.idx < Len(call.arr)
       THEN /\ call' = [call EXCEPT !.idx = call.idx + 1]
            /\ log' = Append(log, Invocation(call.arr[call.idx + 1], authState, themeState))
       ELSE /\ call' = [call EXCEPT !.status = "returned"]
            /\ log' = log
  /\ UNCHANGED <<hostVars, buildVars, otherVars, authState, themeState, listeners, issued, used, returned>>

\* the running callback throws: forEach has no try/catch, neither have
\* notifyListeners and the mutating call, so the exception reaches the caller
ListenerThrow ==
  /\ call.status = "running"
  /\ call' = [call EXCEPT !.status = "threw"]
  /\ UNCHANGED <<hostVars, buildVars, otherVars, authState, themeState, listeners, issued, used, log, returned>>

\* a change of the listener list that calls every listener of the new list
ForgetNotifying ==
  /\ call' = call
  /\ log' = log \o [j \in 1..Len(listeners') |->
                      Invocation(listeners'[j], authState, themeState)]

\* a change of the listener list between calls ends the record of the last call;
\* made by a running callback, it leaves the running call as it is
Forget ==
  /\ call' = IF Idle THEN NoCall ELSE call
  /\ log' = IF Idle THEN <<>> ELSE log

\* subscribe(listener): from a module between calls, or from a running callback
subscribe(f) ==
  /\ Len(issued) < MaxRegs
  /\ listeners' = PushListener(listeners, f, Len(issued) + 1)
  /\ issued' = Append(issued, f)
  /\ returned' = NoRead
  /\ Forget
  /\ UNCHANGED <<hostVars, buildVars, otherVars, authState, themeState, used>>

\* the closure returned by subscribe call r: between calls, or from a running callback
unsubscribe(r) ==
  /\ r \in 1..Len(issued)
  /\ listeners' = FilterListeners(listeners, issued[r])
  /\ used' = used \cup {r}
  /\ returned' = NoRead
  /\ Forget
  /\ UNCHANGED <<hostVars, buildVars, otherVars, authState, themeState, issued>>

getAuthState ==
  /\ Idle
  /\ returned' = [kind |-> "auth", value |-> AuthCopy(authState)]
  /\ UNCHANGED <<hostVars, buildVars, otherVars, authState, themeState, listeners, issued, used, call, log>>

getThemeState ==
  /\ Idle
  /\ returned' = [kind |-> "theme", value |-> ThemeCopy(themeState)]
  /\ UNCHANGED <<hostVars, buildVars, otherVars, authState, themeState, listeners, issued, used, call, log>>

\* bridge methods are called between mutating calls; a callback returns or throws
Next ==
  \/ \E u \in Users \cup {Null} : login(u)
  \/ logout
  \/ toggleTheme
  \/ ListenerReturn
  \/ ListenerThrow
  \/ \E f \in Fns : Idle /\ subscribe(f)
  \/ \E r \in 1..MaxRegs : Idle /\ unsubscribe(r)
  \/ getAuthState
  \/ getThemeState

Spec == Init /\ [][Next]_vars

\* as Next, every login with a user object
NextUsers ==
  \/ \E u \in Users : login(u)
  \/ logout
  \/ toggleTheme
  \/ ListenerReturn
  \/ ListenerThrow
  \/ \E f \in Fns : Idle /\ subscribe(f)
  \/ \E r \in 1..MaxRegs : Idle /\ unsubscribe(r)
  \/ getAuthState
  \/ getThemeState

SpecUsers == Init /\ [][NextUsers]_vars

\* as Next, and a running callback may also call subscribe or an unsubscribe closure
NextInPass ==
  \/ Next
  \/ \E f \in Fns : ~Idle /\ subscribe(f)
  \/ \E r \in 1..MaxRegs : ~Idle /\ unsubscribe(r)

SpecInPass == Init /\ [][NextInPass]_vars

\* ------------------------------------------------- the container's page

\* React renders the children of r's boundary while no remote component is
\* mounted there.  Rendering the lazy element calls the factory import() the
\* first time, throws the stored error when the import was rejected (the
\* boundary above catches it) and mounts the component when it was resolved;
\* while the import is pending the Suspense fallback stays and nothing changes.
RenderChildren(r) ==
  LET b == BoundaryOf(r)
      l == LazyAtRender(lazy[r])
  IN  /\ ~eb[b].hasError
      /\ ~child[r]
      /\ l.status # "pending"
      /\ CASE l.status = "uninitialized" ->
                /\ fetches[r] < MaxFetches
                /\ lazy' = [lazy EXCEPT ![r] = [status |-> "pending", error |-> Undefined,
                                                url |-> config.remotes[r]]]
                /\ fetches' = [fetches EXCEPT ![r] = @ + 1]
                /\ UNCHANGED <<eb, child, counter>>
           [] l.status = "resolved" ->
                /\ child' = [child EXCEPT ![r] = TRUE]
                /\ counter' = [counter EXCEPT ![r] = CounterMounted]
                /\ UNCHANGED <<lazy, fetches, eb>>
           [] l.status = "rejected" ->
                /\ eb' = [eb EXCEPT ![b] = getDerivedStateFromError(l.error)]
                /\ UNCHANGED <<lazy, fetches, child, counter>>
      /\ last' = [last EXCEPT ![r] = "render"]
      /\ UNCHANGED <<fallback, bridgeVars, otherVars, buildVars>>

\* the remote entry and the exposed module arrive: import() is fulfilled
ImportResolved(r) ==
  /\ lazy[r].status = "pending"
  /\ lazy' = [lazy EXCEPT ![r].status = "resolved"]
  /\ last' = [last EXCEPT ![r] = "resolved"]
  /\ UNCHANGED <<fetches, eb, fallback, child, counter, bridgeVars, otherVars, buildVars>>

\* fetching the remote fails: import() is rejected with e
ImportRejected(r, e) ==
  /\ lazy[r].status = "pending"
  /\ lazy' = [lazy EXCEPT ![r].status = "rejected", ![r].error = e]
  /\ last' = [last EXCEPT ![r] = "rejected"]
  /\ UNCHANGED <<fetches, eb, fallback, child, counter, bridgeVars, otherVars, buildVars>>

\* the mounted remote component throws e while rendering: the boundary above
\* it catches the error and its children are unmounted
ChildThrows(r, e) ==
  /\ child[r]
  /\ ~eb[BoundaryOf(r)].hasError
  /\ eb' = [eb EXCEPT ![BoundaryOf(r)] = getDerivedStateFromError(e)]
  /\ child' = [child EXCEPT ![r] = FALSE]
  /\ counter' = [counter EXCEPT ![r] = NoCounter]
  /\ last' = [last EXCEPT ![r] = "threw"]
  /\ UNCHANGED <<lazy, fetches, fallback, bridgeVars, otherVars, buildVars>>

\* the user clicks the Retry button of the boundary of r, when it is on screen
RetryClicked(r) ==
  /\ render(eb[BoundaryOf(r)], [fallback |-> fallback[BoundaryOf(r)]]).retry
  /\ eb' = [eb EXCEPT ![BoundaryOf(r)] = RetryClick(@)]
  /\ last' = [last EXCEPT ![r] = "retry"]
  /\ UNCHANGED <<lazy, fetches, fallback, child, counter, bridgeVars, otherVars, buildVars>>

\* the mounted Counter's import("container/utils") is fulfilled: its then
\* callback calls setUtils(utilsModule)
UtilsResolved(r) ==
  /\ child[r]
  /\ counter[r].utilsImport = "pending"
  /\ counter' = [counter EXCEPT ![r].utilsImport = "resolved", ![r].utils = "utilsModule"]
  /\ last' = [last EXCEPT ![r] = "utils"]
  /\ UNCHANGED <<lazy, fetches, eb, fallback, child, bridgeVars, otherVars, buildVars>>

\* the mounted Counter's import("container/utils") is rejected: the promise
\* has a then callback and no catch, so no state of the Counter is set
UtilsRejected(r) ==
  /\ child[r]
  /\ counter[r].utilsImport = "pending"
  /\ counter' = [counter EXCEPT ![r].utilsImport = "rejected"]
  /\ last' = [last EXCEPT ![r] = "noutils"]
  /\ UNCHANGED <<lazy, fetches, eb, fallback, child, bridgeVars, otherVars, buildVars>>

\* the ErrorBoundary with any fallback prop
HostInit ==
  /\ BridgeInit
  /\ PageInit
  /\ fallback \in [Boundaries -> FallbackProps]
  /\ BuildInit
  /\ OtherInit

HostNext ==
  \/ \E r \in Remotes : RenderChildren(r)
  \/ \E r \in Remotes : ImportResolved(r)
  \/ \E r \in Remotes, e \in LoadErrors : ImportRejected(r, e)
  \/ \E r \in Remotes, e \in RenderErrors : ChildThrows(r, e)
  \/ \E r \in Remotes : RetryClicked(r)
  \/ \E r \in Remotes : UtilsResolved(r)
  \/ \E r \in Remotes : UtilsRejected(r)

HostSpec == HostInit /\ [][HostNext]_vars

\* ------------------------------------------------------ build and deploy

\* the entry URL of a remote is changed in the container's environment
ChangeEnv(v) ==
  /\ env' = [env EXCEPT ![v] = IF @ = DotEnv[v] THEN MovedUrl(v) ELSE DotEnv[v]]
  /\ UNCHANGED <<argv, config, hostVars, bridgeVars, otherVars>>

\* webpack --mode m builds the container from the current environment and the
\* new bundle is served: the page is loaded anew
Build(m) ==
  /\ argv' = [mode |-> m]
  /\ config' = webpackConfig(env, argv')
  /\ lazy' = [r \in Remotes |-> LazyReloaded(lazy[r])]
  /\ fetches' = [r \in Remotes |-> 0]
  /\ eb' = [b \in Boundaries |-> InitialState]
  /\ child' = [r \in Remotes |-> FALSE]
  /\ counter' = [r \in Remotes |-> NoCounter]
  /\ last' = [r \in Remotes |-> "none"]
  /\ UNCHANGED <<env, fallback, bridgeVars, otherVars>>

DeployNext ==
  \/ \E r \in Remotes : RenderChildren(r)
  \/ \E r \in Remotes : ImportResolved(r)
  \/ \E r \in Remotes, e \in LoadErrors : ImportRejected(r, e)
  \/ \E v \in EnvVars : ChangeEnv(v)
  \/ \E m \in Modes : Build(m)

DeploySpec == Init /\ [][DeployNext]_vars

\* the configuration function applied to any environment and any mode
ConfigInit ==
  /\ BridgeInit
  /\ PageInit
  /\ fallback = [b \in Boundaries |-> Undefined]
  /\ env \in {[v \in EnvVars |-> IF v \in S THEN DotEnv[v] ELSE Undefined] : S \in SUBSET EnvVars}
  /\ argv \in [mode : Modes]
  /\ config = NotBuilt
  /\ OtherInit

\* webpack calls the exported function
RunWebpack ==
  /\ config = NotBuilt
  /\ config' = webpackConfig(env, argv)
  /\ UNCHANGED <<env, argv, hostVars, bridgeVars, otherVars>>

ConfigNext == RunWebpack

ConfigSpec == ConfigInit /\ [][ConfigNext]_vars

\* ------------------------------------- the Counters and the bridge

\* the user object of App1's Login button ({ id: "1", name: "Test User", ... })
TestUser == "Test User"

\* listeners that never hear of a change
NotNotified(c, ls, a) == c

\* what a notification pass over the list ls does to the Counters when every
\* callback is a Counter's () => setAuthState(contextBridge.getAuthState()):
\* the mounted Counter whose subscription is in the list gets a copy of the
\* auth state a; the callback of a Counter that has unmounted sets nothing
Notified(c, ls, a) ==
  [r \in Remotes |->
     IF c[r].reg # 0 /\ \E j \in 1..Len(ls) : ls[j].reg = c[r].reg
       THEN [c[r] EXCEPT !.authState = AuthCopy(a)]
       ELSE c[r]]

\* a mutating call whose pass has run to its end, no callback having thrown
CompletedCall(o, u, a, ch) ==
  /\ call' = [op |-> o, arg |-> u, status |-> "returned", arr |-> listeners,
              idx |-> Len(listeners), live |-> Live, changed |-> ch]
  /\ log' = [j \in 1..Len(listeners) |-> Invocation(listeners[j], a, themeState)]

\* App1's Counter shows its Login button
LoginOffered ==
  LET c == counter["app1"]
  IN  /\ child["app1"] /\ ~eb[BoundaryOf("app1")].hasError
      /\ c.utils # Null /\ c.bridge # Null /\ c.authState # NullState
      /\ ~c.authState.isAuthenticated

\* App2's Counter shows its Logout button
LogoutOffered ==
  LET c == counter["app2"]
  IN  /\ child["app2"] /\ ~eb[BoundaryOf("app2")].hasError
      /\ c.utils # Null /\ c.bridge # Null /\ c.authState # NullState
      /\ c.authState.isAuthenticated

\* the mounted Counter's import("container/contextBridge") is fulfilled: its
\* then callback calls setBridge, setAuthState(getAuthState()) and subscribe;
\* the closure subscribe returns is the callback's return value, which
\* nothing receives
BridgeResolved(r) ==
  /\ child[r]
  /\ counter[r].bridgeImport = "pending"
  /\ Len(issued) < MaxRegs
  /\ counter' = [counter EXCEPT ![r].bridgeImport = "resolved",
                                ![r].bridge = "contextBridge",
                                ![r].authState = AuthCopy(authState),
                                ![r].reg = Len(issued) + 1]
  /\ listeners' = PushListener(listeners, r, Len(issued) + 1)
  /\ issued' = Append(issued, r)
  /\ last' = [last EXCEPT ![r] = "bridge"]
  /\ UNCHANGED <<authState, themeState, used, call, log, returned,
                 lazy, fetches, eb, fallback, child, buildVars, otherVars>>

\* the import is rejected: no catch, no state of the Counter is set
BridgeRejected(r) ==
  /\ child[r]
  /\ counter[r].bridgeImport = "pending"
  /\ counter' = [counter EXCEPT ![r].bridgeImport = "rejected"]
  /\ last' = [last EXCEPT ![r] = "nobridge"]
  /\ UNCHANGED <<bridgeVars, lazy, fetches, eb, fallback, child, buildVars, otherVars>>

\* a click on App1's Login button: bridge.login(user) and its notification pass
ClickLogin ==
  /\ LoginOffered
  /\ authState' = LoginAuthState(authState, TestUser)
  /\ CompletedCall("login", TestUser, authState', authState' # authState)
  /\ counter' = Notified(counter, listeners, authState')
  /\ returned' = NoRead
  /\ last' = [last EXCEPT !["app1"] = "login"]
  /\ UNCHANGED <<themeState, listeners, issued, used,
                 lazy, fetches, eb, fallback, child, buildVars, otherVars>>

\* a click on App2's Logout button: bridge.logout() and its notification pass
ClickLogout ==
  /\ LogoutOffered
  /\ authState' = LogoutAuthState(authState)
  /\ CompletedCall("logout", Null, authState', authState' # authState)
  /\ counter' = Notified(counter, listeners, authState')
  /\ returned' = NoRead
  /\ last' = [last EXCEPT !["app2"] = "logout"]
  /\ UNCHANGED <<themeState, listeners, issued, used,
                 lazy, fetches, eb, fallback, child, buildVars, otherVars>>

\* the page of the App as written: the mounts, their Counters and the bridge
LifeNext ==
  \/ \E r \in Remotes : RenderChildren(r)
  \/ \E r \in Remotes : ImportResolved(r)
  \/ \E r \in Remotes, e \in RenderErrors : ChildThrows(r, e)
  \/ \E r \in Remotes : RetryClicked(r)
  \/ \E r \in Remotes, e \in LoadErrors : ImportRejected(r, e)
  \/ \E r \in Remotes : UtilsResolved(r)
  \/ \E r \in Remotes : UtilsRejected(r)
  \/ \E r \in Remotes : BridgeResolved(r)
  \/ \E r \in Remotes : BridgeRejected(r)
  \/ ClickLogin
  \/ ClickLogout

LifeSpec == Init /\ [][LifeNext]_vars

\* ------------------------------------------- a caller keeping a snapshot

\* what a kept object shows when its fields are read: an object that is the
\* bridge's own state shows the bridge's current fields, a copy shows its own
Deref(x) == IF "alias" \in DOMAIN x THEN authState ELSE x

\* the caller keeps the object the last read returned; `was` notes the fields
\* the bridge held when the read returned
KeepReturned ==
  /\ returned.kind # "none"
  /\ held' = [kind |-> returned.kind, ret |-> returned.value,
              was |-> IF returned.kind = "auth"
                        THEN [user |-> authState.user,
                              isAuthenticated |-> authState.isAuthenticated]
                        ELSE [theme |-> themeState.theme, colors |-> themeState.colors]]
  /\ UNCHANGED <<bridgeVars, hostVars, buildVars, clickVars, storeVars>>

\* mutating calls and reads of a bridge nobody has subscribed to, and a
\* caller that keeps what a read returned
SnapNext ==
  \/ \E u \in Users \cup {Null} : login(u)
  \/ logout
  \/ toggleTheme
  \/ getAuthState
  \/ getThemeState
  \/ KeepReturned

SnapSpec == Init /\ [][SnapNext]_vars

\* ------------------------------------------------ the simple Counters

\* a Counter that adds two
AddTwo(c) == c + 2

\* App1's handleClick: const newCount = count + 1
AddOne(c) == c + 1

\* App2's handleClick: const newCount = count * 2
Double(c) == c * 2

\* App2's argument to setSearch: "user clicks" + "  " + newCount
SearchText(n) == "user clicks" \o "  " \o ToString(n)

\* a click on App1's button: setCount(newCount); each click is its own event,
\* rendered before the next one, so the handler reads the count on screen
ClickApp1 ==
  /\ clicks["app1"] < MaxClicks
  /\ count' = [count EXCEPT !["app1"] = AddOne(@)]
  /\ clicks' = [clicks EXCEPT !["app1"] = @ + 1]
  /\ UNCHANGED <<search, callerVars, storeVars, bridgeVars, hostVars, buildVars>>

\* a click on App2's button: the App hands setSearch to CounterAppTwo, so
\* setSearch(...) is called before setCount(newCount)
ClickApp2 ==
  /\ clicks["app2"] < MaxClicks
  /\ search' = SearchText(Double(count["app2"]))
  /\ count' = [count EXCEPT !["app2"] = Double(@)]
  /\ clicks' = [clicks EXCEPT !["app2"] = @ + 1]
  /\ UNCHANGED <<callerVars, storeVars, bridgeVars, hostVars, buildVars>>

\* the user types into the App's search input: onChange calls setSearch
TypeSearch(t) ==
  /\ search' = t
  /\ UNCHANGED <<count, clicks, callerVars, storeVars, bridgeVars, hostVars, buildVars>>

ClickNext ==
  \/ ClickApp1
  \/ ClickApp2
  \/ \E t \in Typed : TypeSearch(t)

ClickSpec == Init /\ [][ClickNext]_vars

\* ------------------------------------------------- the zustand stores

\* zustand's set(partial): the partial's fields replace the state's, the
\* other fields stay
Merge(st, partial) ==
  [k \in DOMAIN st |-> IF k \in DOMAIN partial THEN partial[k] ELSE st[k]]

\* a message put in front of the notifications
PrependMessage(ns, m) == <<m>> \o ns

\* [...state.notifications, message]
AppendMessage(ns, m) == ns \o <<m>>

\* a filter that counts positions from one
RemoveAtOneBased(ts, index) ==
  LET keep == SelectSeq([j \in 1..Len(ts) |-> j], LAMBDA j : j # index)
  IN  [k \in 1..Len(keep) |-> ts[keep[k]]]

\* state.todos.filter((_, i) => i !== index): i counts from zero, the
\* sequence positions j from one
RemoveAt(ts, index) ==
  LET keep == SelectSeq([j \in 1..Len(ts) |-> j], LAMBDA j : j - 1 # index)
  IN  [k \in 1..Len(keep) |-> ts[keep[k]]]

setUser(u) ==
  /\ gstore' = Merge(gstore, [user |-> u])
  /\ storeOp' = "setUser"
  /\ UNCHANGED <<a2store, callerVars, clickVars, bridgeVars, hostVars, buildVars>>

setTheme(t) ==
  /\ gstore' = Merge(gstore, [theme |-> t])
  /\ storeOp' = "setTheme"
  /\ UNCHANGED <<a2store, callerVars, clickVars, bridgeVars, hostVars, buildVars>>

addNotification(m) ==
  /\ Len(gstore.notifications) < MaxNotes
  /\ gstore' = Merge(gstore, [notifications |-> AppendMessage(gstore.notifications, m)])
  /\ storeOp' = "addNotification"
  /\ UNCHANGED <<a2store, callerVars, clickVars, bridgeVars, hostVars, buildVars>>

clearNotifications ==
  /\ gstore' = Merge(gstore, [notifications |-> <<>>])
  /\ storeOp' = "clearNotifications"
  /\ UNCHANGED <<a2store, callerVars, clickVars, bridgeVars, hostVars, buildVars>>

addTodo(t) ==
  /\ Len(a2store.todos) < MaxTodos
  /\ a2store' = Merge(a2store, [todos |-> a2store.todos \o <<t>>])
  /\ storeOp' = "addTodo"
  /\ UNCHANGED <<gstore, callerVars, clickVars, bridgeVars, hostVars, buildVars>>

removeTodo(index) ==
  /\ a2store' = Merge(a2store, [todos |-> RemoveAt(a2store.todos, index)])
  /\ storeOp' = "removeTodo"
  /\ UNCHANGED <<gstore, callerVars, clickVars, bridgeVars, hostVars, buildVars>>

setFilter(f) ==
  /\ a2store' = Merge(a2store, [filter |-> f])
  /\ storeOp' = "setFilter"
  /\ UNCHANGED <<gstore, callerVars, clickVars, bridgeVars, hostVars, buildVars>>

StoreNext ==
  \/ \E u \in Users \cup {Null} : setUser(u)
  \/ \E t \in {"light", "dark"} : setTheme(t)
  \/ \E m \in Messages : addNotification(m)
  \/ clearNotifications
  \/ \E t \in Todos : addTodo(t)
  \/ \E index \in -1..MaxTodos : removeTodo(index)
  \/ \E f \in Filters : setFilter(f)

StoreSpec == Init /\ [][StoreNext]_vars

\* ------------------------------------------------------------------ claims

\* a mutating call has been made and has ended, by returning or by throwing
Ended == call.op # "none" /\ call.status # "running"

\* the subscribe calls whose callbacks the call has invoked, in invocation order
LogRegs == [j \in 1..Len(log) |-> log[j].reg]

\* how many times the call has invoked the callback of subscribe call r
Invoked(r) == Cardinality({j \in 1..Len(log) : log[j].reg = r})

\* no callback has been handed to subscribe twice
DistinctCallbacks ==
  \A i, j \in 1..Len(issued) : i # j => issued[i] # issued[j]

\* C1: listeners subscribed in the order A, B, C (three different callbacks)
\* are invoked in exactly that order by every mutating call, and after B's
\* unsubscribe handle has been invoked the next mutating call invokes only A
\* and then C: when a call has ended, the callbacks it invoked are, in order,
\* the subscriptions that were made and not unsubscribed when it began.
C1_SubscriptionOrder ==
  (Ended /\ DistinctCallbacks) => LogRegs = call.live

\* C2: a subscriber callback that throws does not stop the pass and does not
\* reach the caller: every mutating call ends by returning normally, with the
\* state updated and with every element of the listener array invoked.
C2_FaultIsolation ==
  Ended =>
    /\ call.status = "returned"
    /\ Len(log) = Len(call.arr)
    /\ call.op = "login" => authState = [user |-> call.arg, isAuthenticated |-> TRUE]
    /\ call.op = "logout" => authState = [user |-> Null, isAuthenticated |-> FALSE]

\* C3: every mutation notifies all registered subscribers synchronously, after
\* the new value is stored and before the call ends: each invoked callback
\* read the value the call stored, and when the call has ended every
\* subscriber that was registered when it began has been invoked.
C3_SynchronousNotification ==
  /\ \A j \in 1..Len(log) :
       /\ log[j].auth = AuthCopy(authState)
       /\ log[j].theme = themeState.theme
  /\ Ended =>
       \A i \in 1..Len(call.arr) :
         \E j \in 1..Len(log) : log[j].reg = call.arr[i].reg

\* C4: no dirty-checking: a mutating call whose assignments left the stored
\* value as it was (logout while logged out, login with the stored user) still
\* invokes every registered subscriber exactly once.
C4_NoDirtyChecking ==
  (Ended /\ ~call.changed) =>
    \A i \in 1..Len(call.arr) : Invoked(call.arr[i].reg) = 1

\* C5: the unsubscribe handle returned by a subscribe call, invoked for the
\* first time, removes exactly the registration that subscribe call created
\* and no other, also when the same callback was subscribed twice.
C5_RemovesExactlyItsRegistration ==
  [][\A r \in 1..MaxRegs :
       (unsubscribe(r) /\ r \notin used) =>
         listeners' = SelectSeq(listeners, LAMBDA l : l.reg # r)]_vars

\* C6: the unsubscribe handle is idempotent: invoked again after its first
\* invocation it leaves the listener list exactly as it was.
C6_UnsubscribeIdempotent ==
  [][\A r \in 1..MaxRegs :
       (unsubscribe(r) /\ r \in used) => listeners' = listeners]_vars

\* C7: a subscriber is invoked for no mutation made before it registered and
\* for every mutation made after its registration and before its unsubscribe:
\* a call invokes only subscriptions that existed when it began, and when it
\* has ended it has invoked every subscription made and not unsubscribed by
\* then (the callbacks being different functions).
C7_LateSubscriber ==
  /\ \A j \in 1..Len(log) :
       \E i \in 1..Len(call.live) : call.live[i] = log[j].reg
  /\ (Ended /\ DistinctCallbacks) =>
       \A i \in 1..Len(call.live) : Invoked(call.live[i]) >= 1

\* C8: round trip: getAuthState() called right after login(u) returns user = u
\* with isAuthenticated = true, and right after logout() it returns
\* user = null with isAuthenticated = false, whatever was stored before and
\* whether or not the mutating call ended with an exception.
C8_RoundTrip ==
  returned.kind = "auth" =>
    /\ call.op = "login" =>
         returned.value = [user |-> call.arg, isAuthenticated |-> TRUE]
    /\ call.op = "logout" =>
         returned.value = [user |-> Null, isAuthenticated |-> FALSE]

\* C8 happens: getAuthState() has returned user u2 right after a login(u2)
\* that changed the stored value
C8_Witness ==
  /\ returned.kind = "auth"
  /\ call.op = "login" /\ call.arg = "u2" /\ call.changed
  /\ returned.value.user = "u2"

\* C9: a registered listener is invoked once for every mutation of any key:
\* whichever of login, logout and toggleTheme the call was, when it has ended
\* every element of the listener array has been invoked exactly once.
C9_EveryMutationEveryListener ==
  \A o \in {"login", "logout", "toggleTheme"} :
    (Ended /\ call.op = o) =>
      /\ Len(log) = Len(call.arr)
      /\ \A i \in 1..Len(call.arr) : log[i].reg = call.arr[i].reg

\* C11: Retry on a remote whose load failed loads the remote again, the cached
\* result bypassed: the render that follows the click on Retry calls the
\* remote's import() anew, so the remote is Loading again with one more fetch.
C11_RetryReloads ==
  [][\A r \in Remotes :
       (RenderChildren(r) /\ last[r] = "retry" /\ lazy[r].status = "rejected") =>
         /\ lazy'[r].status = "pending"
         /\ fetches'[r] = fetches[r] + 1]_vars

\* a step of the mount of remote r: a failure, a render or a retry
MountStep(r) ==
  \/ \E e \in LoadErrors : ImportRejected(r, e)
  \/ \E e \in RenderErrors : ChildThrows(r, e)
  \/ RenderChildren(r)
  \/ RetryClicked(r)

\* C12: isolation between the remotes: a load failure, a caught runtime error,
\* a render or a retry of one remote leaves the other remote's lazy object,
\* its boundary's state, its mounted component and what the page shows in its
\* place exactly as they were.
C12_Isolation ==
  [][\A r \in Remotes : \A o \in Remotes \ {r} :
       MountStep(r) =>
         /\ lazy'[o] = lazy[o]
         /\ eb'[BoundaryOf(o)] = eb[BoundaryOf(o)]
         /\ child'[o] = child[o]
         /\ counter'[o] = counter[o]
         /\ Screen(o)' = Screen(o)]_vars

\* C12 happens: the boundary of one remote has just caught a runtime error
\* while the other remote is mounted and shows its Counter
C12_Witness ==
  \E r \in Remotes : \E o \in Remotes \ {r} :
    /\ MountState(r) = "CaughtRuntimeError" /\ last[r] = "threw"
    /\ MountState(o) = "Mounted" /\ counter[o].utils # Null

\* C13: whenever hasError is true the boundary renders the fallback view in
\* place of its children and a retry action is available, with the default
\* fallback and with a fallback prop alike; when hasError is false it renders
\* its children.
C13_FallbackWithRetry ==
  \A b \in Boundaries :
    LET v == render(eb[b], [fallback |-> fallback[b]])
    IN  /\ eb[b].hasError => (v.shows = "fallback" /\ v.retry)
        /\ ~eb[b].hasError => v.shows = "children"

\* the transitions the load state is allowed
AllowedTransitions ==
  {<<"NotLoaded", "Loading">>, <<"Loading", "Loaded">>, <<"Loading", "Failed">>,
   <<"Failed", "Loading">>, <<"Loaded", "NotLoaded">>}

\* C14: the load state of a remote changes only by NotLoaded -> Loading,
\* Loading -> Loaded, Loading -> Failed, Failed -> Loading and
\* Loaded -> NotLoaded; within one page load nothing invalidates a load, so a
\* loaded remote stays Loaded, is never fetched again and never becomes Failed.
C14_LoadTransitions ==
  [][\A r \in Remotes :
       /\ LoadState(lazy'[r]) # LoadState(lazy[r]) =>
            <<LoadState(lazy[r]), LoadState(lazy'[r])>> \in AllowedTransitions
       /\ LoadState(lazy[r]) = "Loaded" =>
            (LoadState(lazy'[r]) = "Loaded" /\ fetches'[r] = fetches[r])]_vars

\* C14 happens: one remote went through Loading to Loaded and was rendered
\* again after that, the other went through Loading to Failed
C14_Witness ==
  \E r \in Remotes : \E o \in Remotes \ {r} :
    /\ LoadState(lazy[r]) = "Loaded" /\ last[r] = "render" /\ fetches[r] = 1
    /\ LoadState(lazy[o]) = "Failed" /\ fetches[o] = 1

\* the entry URL the environment and the mode select for remote r right now
SelectedUrl(r) == webpackConfig(env, argv).remotes[r]

C17_OneRetryThenFailed ==
  \A r \in Remotes :
    lazy[r].status = "rejected" =>
      /\ fetches[r] = 2
      /\ last[r] = "render" =>
           /\ MountState(r) = "FailedToLoad"
           /\ render(eb[BoundaryOf(r)], [fallback |-> fallback[BoundaryOf(r)]]).shows = "fallback"

\* the two loading views of a mount
LoadingViews == {"Loading APP...", "Loading shared resources..."}

\* C18: every load that has started settles and no mount stays in its loading
\* view: once the import() of a remote has settled and React has rendered the
\* outcome, and once the mounted Counter's import of the shared utils has
\* settled, by fulfilment or by rejection, the mount is out of its loading view.
C18_LoadSettles ==
  \A r \in Remotes :
    /\ (lazy[r].status \in {"resolved", "rejected"} /\ last[r] = "render") =>
         Screen(r) # "Loading APP..."
    /\ (child[r] /\ counter[r].utilsImport \in {"resolved", "rejected"}) =>
         Screen(r) \notin LoadingViews

\* C19: ErrorBoundary.state.error is set when a child's error is caught and is
\* cleared together with hasError by Retry: in every state error is defined
\* only if hasError is true, right after a caught error the boundary holds
\* that error with hasError true, and right after Retry it is back in its
\* initial state.
C19_ErrorOnlyWithHasError ==
  \A r \in Remotes :
    LET s == eb[BoundaryOf(r)]
    IN  /\ s.error # Undefined => s.hasError
        /\ last[r] = "threw" => (s.hasError /\ s.error \in RenderErrors)
        /\ last[r] = "retry" => s = InitialState

\* C19 happens: one boundary holds a caught error, the other has just been
\* reset by Retry after it had caught one
C19_Witness ==
  \E r \in Remotes : \E o \in Remotes \ {r} :
    /\ eb[BoundaryOf(r)].hasError /\ eb[BoundaryOf(r)].error # Undefined
    /\ last[o] = "retry" /\ eb[BoundaryOf(o)].error = Undefined

\* C20: the container's configuration selects each remote's entry URL by the
\* build mode only: the PROD_* value when argv.mode is "production", the DEV_*
\* value for every other mode, an absent mode included; the emitted mode is
\* "production" in exactly the same case.
C20_RemotesByMode ==
  config # NotBuilt =>
    /\ config.mode = "production" <=> argv.mode = "production"
    /\ argv.mode = "production" =>
         /\ config.remotes.app1 = env.PROD_APP1
         /\ config.remotes.app2 = env.PROD_APP2
    /\ argv.mode # "production" =>
         /\ config.remotes.app1 = env.DEV_APP1
         /\ config.remotes.app2 = env.DEV_APP2

\* C20 happens: a production build from the documented .env has selected the
\* PROD_* URLs, which are not the DEV_* ones
C20_Witness ==
  /\ config # NotBuilt
  /\ env = DotEnv
  /\ argv.mode = "production"
  /\ config.remotes.app1 = DotEnv.PROD_APP1
  /\ config.remotes.app2 # DotEnv.DEV_APP2

C22_AuthConsistent ==
  authState.isAuthenticated <=> authState.user # Null

\* C22 happens: a logout of a logged-in user whose notification pass ended
\* with an exception
C22_Witness ==
  /\ call.op = "logout" /\ call.changed /\ call.status = "threw"
  /\ ~authState.isAuthenticated

\* C23: the theme state of the bridge is consistent: theme is "light" or
\* "dark", background "#ffffff" and text "#000000" exactly when it is
\* "light", background "#0f0f23" and text "#ffffff" exactly when it is "dark",
\* and two consecutive toggleTheme calls restore the theme state.
C23_ThemeConsistent ==
  /\ themeState.theme \in {"light", "dark"}
  /\ themeState.theme = "light" <=>
       (themeState.colors.background = "#ffffff" /\ themeState.colors.text = "#000000")
  /\ themeState.theme = "dark" <=>
       (themeState.colors.background = "#0f0f23" /\ themeState.colors.text = "#ffffff")
  /\ ToggledThemeState(ToggledThemeState(themeState)) = themeState

\* C23 happens: toggleTheme has brought the theme back to light
C23_Witness ==
  /\ call.op = "toggleTheme" /\ call.changed
  /\ themeState.theme = "light"

\* the step invokes no listener: the record of invocations does not grow
NoInvocation ==
  /\ log' \in {log, <<>>}
  /\ call'.idx \in {call.idx, 0}

\* C24: frame conditions of the bridge operations: login and logout leave the
\* theme state and the listener list unchanged; toggleTheme leaves the auth
\* state and the listener list unchanged; getAuthState and getThemeState
\* change no state and invoke no listener; subscribe and unsubscribe change
\* only the listener list and invoke no listener.
C24_Frames ==
  [][/\ ((\E u \in Users \cup {Null} : login(u)) \/ logout) =>
          (themeState' = themeState /\ listeners' = listeners)
     /\ toggleTheme => (authState' = authState /\ listeners' = listeners)
     /\ (getAuthState \/ getThemeState) =>
          /\ authState' = authState /\ themeState' = themeState
          /\ listeners' = listeners
          /\ NoInvocation
     /\ ((\E f \in Fns : subscribe(f)) \/ (\E r \in 1..MaxRegs : unsubscribe(r))) =>
          /\ authState' = authState /\ themeState' = themeState
          /\ NoInvocation]_vars

\* C24 happens: with a listener subscribed, after a login and a toggle, a
\* read has returned the dark theme
C24_Witness ==
  /\ listeners # <<>>
  /\ authState.isAuthenticated
  /\ returned.kind = "theme" /\ returned.value.theme = "dark"

\* C25: getAuthState and getThemeState return snapshots: the fields of a
\* returned object (user, isAuthenticated, theme, colors) keep the values they
\* had when it was returned, whatever login, logout and toggleTheme calls
\* come later.
C25_Snapshots ==
  held.kind # "none" => Deref(held.ret) = held.was

\* C25 happens: an auth snapshot taken after a logout is still held, and
\* still shows no user, after a later login(u1) and a toggleTheme
C25_Witness ==
  /\ held.kind = "auth" /\ ~held.was.isAuthenticated
  /\ held.ret.user = Null
  /\ authState.user = "u1" /\ call.op = "toggleTheme"

\* the subscribe calls whose elements were in the listener array when the
\* call began, in array order
ArrRegs == [i \in 1..Len(call.arr) |-> call.arr[i].reg]

\* C26: the listeners invoked by one notification pass are exactly the
\* listener list as it stood when the pass began, in that order: while the
\* pass runs the invoked ones are its first elements, and when it has ended
\* all of them have been invoked, a listener unsubscribed by an earlier one
\* during the pass included and one subscribed during the pass excluded.
C26_PassSnapshot ==
  /\ call.op # "none" =>
       /\ Len(log) <= Len(call.arr)
       /\ \A j \in 1..Len(log) : log[j].reg = ArrRegs[j]
  /\ Ended => LogRegs = ArrRegs

\* the Counter of remote r is mounted and has subscribed to the bridge
Subscribed(r) == child[r] /\ counter[r].reg # 0

\* C27: bridge registrations follow component lifetime: after any sequence of
\* mounts and unmounts of the App1 and App2 Counters, remounts after the
\* boundary's Retry included, the bridge holds as many listeners as there are
\* mounted Counters that have subscribed.
C27_RegistrationsFollowLifetime ==
  Len(listeners) = Cardinality({r \in Remotes : Subscribed(r)})

\* C28: cross-remote auth synchronisation: between bridge calls the authState
\* copy of every mounted Counter that has subscribed equals the bridge's auth
\* state; so while a user is logged in, App2's subscribed Counter, once it
\* shows its counter view, shows that user and offers Logout, and App1's
\* Login and App2's Logout are never offered in the same state.
C28_AuthSync ==
  /\ \A r \in Remotes :
       Subscribed(r) => counter[r].authState = AuthCopy(authState)
  /\ (authState.isAuthenticated /\ Subscribed("app2") /\ counter["app2"].utils # Null) =>
       (LogoutOffered /\ counter["app2"].authState.user = authState.user)
  /\ ~(LoginOffered /\ LogoutOffered)

\* C28 happens: both Counters are subscribed, App1's Login has been clicked
\* and App2 offers Logout for the Test User
C28_Witness ==
  /\ Subscribed("app1") /\ Subscribed("app2")
  /\ last["app1"] = "login"
  /\ LogoutOffered
  /\ counter["app2"].authState.user = TestUser

\* C29: in the global store addNotification(m) appends m at the end of
\* notifications and keeps the earlier entries in their order,
\* clearNotifications empties notifications, and each of setUser, setTheme,
\* addNotification and clearNotifications changes only its own field.
C29_GlobalStore ==
  [][/\ \A m \in Messages : addNotification(m) =>
          /\ Len(gstore'.notifications) = Len(gstore.notifications) + 1
          /\ gstore'.notifications[Len(gstore'.notifications)] = m
          /\ \A j \in 1..Len(gstore.notifications) :
               gstore'.notifications[j] = gstore.notifications[j]
          /\ gstore'.user = gstore.user /\ gstore'.theme = gstore.theme
     /\ clearNotifications =>
          /\ gstore'.notifications = <<>>
          /\ gstore'.user = gstore.user /\ gstore'.theme = gstore.theme
     /\ \A u \in Users \cup {Null} : setUser(u) =>
          /\ gstore'.user = u
          /\ gstore'.theme = gstore.theme
          /\ gstore'.notifications = gstore.notifications
     /\ \A t \in {"light", "dark"} : setTheme(t) =>
          /\ gstore'.theme = t
          /\ gstore'.user = gstore.user
          /\ gstore'.notifications = gstore.notifications]_vars

\* C29 happens: m2 was added after m1 with a user and the dark theme set
C29_Witness ==
  /\ storeOp = "addNotification"
  /\ gstore.notifications = <<"m1", "m2">>
  /\ gstore.user = "u1" /\ gstore.theme = "dark"

\* C30: in App2's store removeTodo(i) with 0 <= i < length removes exactly
\* the todo at position i, shortens the list by one and keeps the others in
\* their order; with i out of range the list is unchanged; removeTodo never
\* changes filter; addTodo appends at the end.
C30_RemoveTodo ==
  [][/\ \A index \in -1..MaxTodos : removeTodo(index) =>
          LET ts == a2store.todos
          IN  /\ (0 <= index /\ index < Len(ts)) =>
                   a2store'.todos = SubSeq(ts, 1, index) \o SubSeq(ts, index + 2, Len(ts))
              /\ (index < 0 \/ index >= Len(ts)) => a2store'.todos = ts
              /\ a2store'.filter = a2store.filter
     /\ \A t \in Todos : addTodo(t) => a2store'.todos = Append(a2store.todos, t)]_vars

\* C30 happens: with the filter set, a removeTodo took the middle one of
\* three todos, two of which were equal
C30_Witness ==
  /\ storeOp = "removeTodo"
  /\ a2store.todos = <<"t1", "t1">>
  /\ a2store.filter = "pending"

====
